---- MODULE Spec2Model ----
(***************************************************************************)
(* Model of peachpy/writer.py: the module-level active_writer slot and the *)
(* five writer classes (AssemblyWriter, ELFWriter, MachOWriter,            *)
(* MSCOFFWriter, NullWriter) driven by a caller that constructs writers,   *)
(* opens them with nested `with` statements, calls add_function and        *)
(* leaves the `with` blocks normally or with an exception in flight.       *)
(***************************************************************************)
EXTENDS Integers, Sequences, FiniteSets, TLC

(* ---------------------------------------------------------------- bounds *)

\* Number of writer objects alive at a time.
NumWriters == 2

\* Number of add_function calls the caller makes on the writers alive at a time.
MaxFunctions == 2

Writers == 1..NumWriters

(* ------------------------------------------------------------- constants *)

\* Python's None, as the value of active_writer / previous_writer / a section attribute.
None == 0

\* The addend of every ELF relocation.
Addend == -4

\* Index of the text section registered by the constructors.
TextIndex == 1

AssemblyFormats == {"go", "nasm", "masm", "gas"}

ObjectClasses == {"ELFWriter", "MachOWriter", "MSCOFFWriter"}

FileClasses == ObjectClasses \cup {"AssemblyWriter"}

\* The constructor calls the caller makes: class, assembly_format, input_path given or not.
ConstructorCalls ==
    [cls : {"AssemblyWriter"}, assembly_format : AssemblyFormats \cup {"intel"},
     input_path : {FALSE}]
    \cup [cls : {"AssemblyWriter"}, assembly_format : {"gas"}, input_path : {TRUE}]
    \cup [cls : ObjectClasses \cup {"NullWriter"}, assembly_format : {""},
          input_path : {FALSE}]

(* ------------------------------------------------- strings and byte data *)

\* A string is a sequence of tokens; each token is a tuple of TLA+ strings.
LineSep == << <<"linesep">> >>

RECURSIVE Join(_, _)
\* sep.join(items)
Join(items, sep) ==
    IF Len(items) = 0 THEN <<>>
    ELSE IF Len(items) = 1 THEN items[1]
    ELSE items[1] \o sep \o Join(Tail(items), sep)

\* n bytes of content belonging to `name`
Bytes(name, n) == [i \in 1..n |-> name]

(* -------------------------------------------- functions handed to writers *)

ConstSymbol(name, offset, size) == [name |-> name, offset |-> offset, size |-> size]

Relocation(offset, symbol) == [offset |-> offset, symbol |-> symbol]

\* What the front end hands to add_function: abi_bound tells an ABIFunction from a
\* plain Function; the other fields are what encode() returns for it.
FunctionF ==
    [name |-> "f", abi_bound |-> TRUE, code_content |-> Bytes("f", 16),
     const_content |-> <<>>, const_symbols |-> <<>>, code_relocations |-> <<>>]

FunctionG ==
    [name |-> "g", abi_bound |-> TRUE, code_content |-> Bytes("g", 8),
     const_content |-> Bytes("g", 4),
     const_symbols |-> <<ConstSymbol("c", 0, 4)>>,
     code_relocations |-> <<Relocation(2, "c")>>]

\* constant symbols and a relocation, but empty constant data
FunctionK ==
    [name |-> "k", abi_bound |-> TRUE, code_content |-> Bytes("k", 4),
     const_content |-> <<>>,
     const_symbols |-> <<ConstSymbol("c", 0, 0)>>,
     code_relocations |-> <<Relocation(0, "c")>>]

\* second relocation names a symbol this function does not define
FunctionM ==
    [name |-> "m", abi_bound |-> TRUE, code_content |-> Bytes("m", 4),
     const_content |-> Bytes("m", 2),
     const_symbols |-> <<ConstSymbol("d", 0, 2)>>,
     code_relocations |-> <<Relocation(0, "d"), Relocation(2, "c")>>]

\* not bound to an ABI
FunctionU ==
    [name |-> "u", abi_bound |-> FALSE, code_content |-> Bytes("u", 4),
     const_content |-> <<>>, const_symbols |-> <<>>, code_relocations |-> <<>>]

Functions == {FunctionF, FunctionG, FunctionK, FunctionM, FunctionU}

\* The functions the caller hands to each class of writer: the writers that read
\* neither constants nor relocations get one function with them and one without.
FunctionsFor(cls) ==
    IF cls = "ELFWriter" THEN Functions ELSE {FunctionF, FunctionG, FunctionU}

(* ----------------------------------------------------------------- state *)

VARIABLES
    active_writer,  \* the module-level active_writer: None or a writer
    self,           \* self[w]: the attributes of writer object w
    image,          \* image[w]: sections, symbol table and string table owned by w
    files,          \* files[w]: the file object w's __enter__ opened
    disk,           \* disk[w]: the file at w's output_path
    stack,          \* the caller's open `with` blocks, innermost last
    exc,            \* the exception in flight in the caller, or "none"
    session,        \* session[w]: where the caller stands with writer w
    history         \* history[w]: what happened to w so far, for the properties below

vars == <<active_writer, self, image, files, disk, stack, exc, session, history>>

\* An attribute the object does not have (yet).
Unset == -1

\* A writer object that has not been constructed.
NoObject ==
    [cls |-> "", assembly_format |-> "", comment_prefix |-> "", output_header |-> <<>>,
     previous_writer |-> Unset, output_file |-> Unset,
     rodata_section |-> Unset, text_rela_section |-> Unset]

Section(kind) == [kind |-> kind, content |-> <<>>, relocations |-> <<>>]

\* A writer without an image (AssemblyWriter, NullWriter, unconstructed).
NoImage == [sections |-> <<>>, symtab |-> <<>>, string_table |-> <<>>]

\* Image(...) followed by add_section(TextSection()); the Mach-O image owns its text section.
NewImage == [sections |-> <<Section("text")>>, symtab |-> <<>>, string_table |-> <<>>]

NoHistory ==
    [entered_from |-> Unset, called |-> <<>>, added |-> <<>>, result |-> "none",
     close_failed |-> FALSE]

Init ==
    /\ active_writer = None
    /\ self = [w \in Writers |-> NoObject]
    /\ image = [w \in Writers |-> NoImage]
    /\ files = [w \in Writers |-> "none"]
    /\ disk = [w \in Writers |-> [exists |-> FALSE, content |-> <<>>]]
    /\ stack = <<>>
    /\ exc = "none"
    /\ session = [w \in Writers |-> "unbuilt"]
    /\ history = [w \in Writers |-> NoHistory]

(* ---------------------------------------------------------- constructors *)

\* a writer that starts comments with a semicolon in every dialect
CommentPrefixSemicolon(assembly_format) == ";"

\* AssemblyWriter.__init__: the comment prefix of a supported format
CommentPrefix(assembly_format) ==
    CASE assembly_format = "go" -> "//"
      [] assembly_format = "nasm" -> ";"
      [] assembly_format = "masm" -> ";"
      [] assembly_format = "gas" -> "#"

\* AssemblyWriter.__init__: os.linesep.join(header_linea)
OutputHeader(comment_prefix, input_path) ==
    LET banner == IF input_path
                  THEN << <<comment_prefix, " Generated by PeachPy ", "version", " from ", "input_path">> >>
                  ELSE << <<comment_prefix, " Generated by PeachPy ", "version">> >>
    IN Join(<<banner, <<>>, <<>> >>, LineSep)

\* The object each constructor leaves behind.
NewObject(call) ==
    CASE call.cls = "AssemblyWriter" ->
           [NoObject EXCEPT !.cls = call.cls,
                            !.assembly_format = call.assembly_format,
                            !.comment_prefix = CommentPrefix(call.assembly_format),
                            !.output_header =
                                OutputHeader(CommentPrefix(call.assembly_format), call.input_path),
                            !.previous_writer = None]
      [] call.cls = "ELFWriter" ->
           [NoObject EXCEPT !.cls = call.cls, !.previous_writer = None,
                            !.text_rela_section = None, !.rodata_section = None]
      [] call.cls \in {"MachOWriter", "MSCOFFWriter"} ->
           [NoObject EXCEPT !.cls = call.cls, !.previous_writer = None]
      [] call.cls = "NullWriter" ->
           [NoObject EXCEPT !.cls = call.cls]

\* Whether the constructor raises ValueError.
UnknownFormat(call) ==
    call.cls = "AssemblyWriter" /\ call.assembly_format \notin {"go", "nasm", "masm", "gas"}

\* Whether some variable or attribute still refers to writer object w.
Referenced(w) ==
    \/ active_writer = w
    \/ \E v \in Writers : self[v].previous_writer = w

\* The caller drops a finished writer before it goes on.
Tidy == \A v \in Writers : session[v] \in {"closed", "enter_failed"} => Referenced(v)

\* The caller constructs a writer right before the `with` statement that opens it,
\* while no exception is in flight.
CanConstruct(w) ==
    /\ exc = "none"
    /\ Tidy
    /\ session[w] = "unbuilt"
    /\ \A v \in Writers : session[v] # "built" /\ (v < w => session[v] # "unbuilt")

\* Writer(...) with acceptable arguments.
Construct(w, call) ==
    /\ CanConstruct(w)
    /\ ~UnknownFormat(call)
    /\ self' = [self EXCEPT ![w] = NewObject(call)]
    /\ image' = [image EXCEPT ![w] = IF call.cls \in ObjectClasses THEN NewImage ELSE NoImage]
    /\ session' = [session EXCEPT ![w] = "built"]
    /\ UNCHANGED <<active_writer, files, disk, stack, exc, history>>

\* AssemblyWriter(path, format) with a format outside the four: ValueError, no object.
ConstructFail(w, call) ==
    /\ CanConstruct(w)
    /\ UnknownFormat(call)
    /\ exc' = "ValueError"
    /\ UNCHANGED <<active_writer, self, image, files, disk, stack, session, history>>

(* ------------------------------------------------ ELFWriter.add_function *)

\* a writer that places every function at the start of the text section
FunctionOffsetZero(img) == 0

\* function_offset = len(self.text_section.content)
FunctionOffset(img) == Len(img.sections[TextIndex].content)

\* a text section whose content is replaced by the code of the latest function
AppendTextOverwriting(img, code) ==
    [img EXCEPT !.sections[TextIndex].content = code]

\* self.text_section.content += code (ELF), text_section.append(code) (Mach-O),
\* text_section.write(code) (MSCOFF)
AppendText(img, code) ==
    [img EXCEPT !.sections[TextIndex].content = @ \o code]

\* a writer that creates the read-only-data section for every function with constants
RodataMissingAlways(rodata_section) == TRUE

\* `if self.rodata_section is None`
RodataMissing(rodata_section) == rodata_section = None

\* rodata_section.get_content_size(abi)
GetContentSize(section) == Len(section.content)

\* The constant-data step: creates the section on first need, appends the data.
\* Yields the image, the rodata_section attribute and function_rodata_offset.
AddConstContent(img, rodata_section, const_content) ==
    IF const_content = <<>>
    THEN [image |-> img, rodata_section |-> rodata_section, function_rodata_offset |-> 0]
    ELSE LET created == RodataMissing(rodata_section)
             img1 == IF created
                     THEN [img EXCEPT !.sections = Append(@, Section("rodata"))]
                     ELSE img
             rs == IF created THEN Len(img1.sections) ELSE rodata_section
         IN [image |-> [img1 EXCEPT !.sections[rs].content = @ \o const_content],
             rodata_section |-> rs,
             function_rodata_offset |-> GetContentSize(img1.sections[rs])]

\* The Symbol built for one constant symbol of the function.
ConstSymbolEntry(symbol, function_rodata_offset, rodata_section) ==
    [name |-> symbol.name, value |-> function_rodata_offset + symbol.offset,
     size |-> symbol.size, content_size |-> Unset, section |-> rodata_section,
     binding |-> "local", type |-> "data_object"]

\* symbol_map = dict()
EmptyMap == [n \in {} |-> None]

\* symbol_map[symbol.name] = const_symbol
MapSymbol(symbol_map, name, const_symbol) == (name :> const_symbol) @@ symbol_map

RECURSIVE AddConstSymbols(_, _, _, _, _)
\* `for symbol in encoded_function.const_symbols`: a Symbol is referred to by its
\* position in the symbol table.
AddConstSymbols(symtab, symbol_map, const_symbols, function_rodata_offset, rodata_section) ==
    IF const_symbols = <<>>
    THEN [symtab |-> symtab, symbol_map |-> symbol_map]
    ELSE LET symbol == Head(const_symbols)
             added == Append(symtab,
                             ConstSymbolEntry(symbol, function_rodata_offset, rodata_section))
         IN AddConstSymbols(added, MapSymbol(symbol_map, symbol.name, Len(added)),
                            Tail(const_symbols), function_rodata_offset, rodata_section)

\* `if self.text_rela_section is None`
RelaMissing(text_rela_section) == text_rela_section = None

\* The offset the relocation entry gets.
RelocationOffset(function_offset, relocation) == relocation.offset

\* RelocationWithAddend(RelocationType.x86_64_pc32, relocation.offset, symbol, -4)
ElfRelocation(function_offset, relocation, symbol) ==
    [type |-> "x86_64_pc32", offset |-> RelocationOffset(function_offset, relocation),
     symbol |-> symbol, addend |-> Addend]

RECURSIVE AddRelocations(_, _, _, _)
\* `for relocation in encoded_function.code_relocations`; symbol_map[...] raises
\* KeyError for a name the map does not hold, and the loop stops there.
AddRelocations(relocations, code_relocations, symbol_map, function_offset) ==
    IF code_relocations = <<>>
    THEN [relocations |-> relocations, raised |-> "none"]
    ELSE LET relocation == Head(code_relocations)
         IN IF relocation.symbol \notin DOMAIN symbol_map
            THEN [relocations |-> relocations, raised |-> "KeyError"]
            ELSE AddRelocations(
                     Append(relocations,
                            ElfRelocation(function_offset, relocation,
                                          symbol_map[relocation.symbol])),
                     Tail(code_relocations), symbol_map, function_offset)

\* The relocation step: creates the table on first need, then adds the entries.
AddCodeRelocations(img, text_rela_section, code_relocations, symbol_map, function_offset) ==
    IF code_relocations = <<>>
    THEN [image |-> img, text_rela_section |-> text_rela_section, raised |-> "none"]
    ELSE LET created == RelaMissing(text_rela_section)
             img1 == IF created
                     THEN [img EXCEPT !.sections = Append(@, Section("rela"))]
                     ELSE img
             trs == IF created THEN Len(img1.sections) ELSE text_rela_section
             r == AddRelocations(img1.sections[trs].relocations, code_relocations,
                                 symbol_map, function_offset)
         IN [image |-> [img1 EXCEPT !.sections[trs].relocations = r.relocations],
             text_rela_section |-> trs, raised |-> r.raised]

\* The Symbol built for the function itself.
ElfFunctionSymbol(function, function_offset) ==
    [name |-> function.name, value |-> function_offset, size |-> Unset,
     content_size |-> Len(function.code_content), section |-> TextIndex,
     binding |-> "global_", type |-> "function"]

\* The first symbol table position holding each name.
FirstNamed(symtab) ==
    [n \in {symtab[i].name : i \in DOMAIN symtab} |->
        CHOOSE i \in DOMAIN symtab :
            symtab[i].name = n /\ \A j \in DOMAIN symtab : symtab[j].name = n => i <= j]

\* a writer that resolves relocations by name against the whole symbol table, as a
\* symbol map kept across add_function calls would
ELFAddFunctionSharedMap(img, rodata_section, text_rela_section, function) ==
    LET function_offset == FunctionOffset(img)
        img1 == AppendText(img, function.code_content)
        c == AddConstContent(img1, rodata_section, function.const_content)
        s == AddConstSymbols(c.image.symtab, EmptyMap, function.const_symbols,
                             c.function_rodata_offset, c.rodata_section)
        img2 == [c.image EXCEPT !.symtab = s.symtab]
        r == AddCodeRelocations(img2, text_rela_section, function.code_relocations,
                                FirstNamed(s.symtab), function_offset)
    IN [image |-> IF r.raised = "none"
                  THEN [r.image EXCEPT !.symtab =
                            Append(@, ElfFunctionSymbol(function, function_offset))]
                  ELSE r.image,
        rodata_section |-> c.rodata_section,
        text_rela_section |-> r.text_rela_section,
        raised |-> r.raised]

\* ELFWriter.add_function after its assertion: the writer's image and section
\* attributes afterwards, and the exception it raised, if any.
ELFAddFunction(img, rodata_section, text_rela_section, function) ==
    LET function_offset == FunctionOffset(img)
        img1 == AppendText(img, function.code_content)
        c == AddConstContent(img1, rodata_section, function.const_content)
        s == AddConstSymbols(c.image.symtab, EmptyMap, function.const_symbols,
                             c.function_rodata_offset, c.rodata_section)
        img2 == [c.image EXCEPT !.symtab = s.symtab]
        r == AddCodeRelocations(img2, text_rela_section, function.code_relocations,
                                s.symbol_map, function_offset)
    IN [image |-> IF r.raised = "none"
                  THEN [r.image EXCEPT !.symtab =
                            Append(@, ElfFunctionSymbol(function, function_offset))]
                  ELSE r.image,
        rodata_section |-> c.rodata_section,
        text_rela_section |-> r.text_rela_section,
        raised |-> r.raised]

(* ------------------------------- MachOWriter / MSCOFFWriter add_function *)

\* string_table.add(string): the string's index in the table
StringTableAdd(string_table, string) == Append(string_table, string)

MachOFunctionSymbol(function, function_offset, string_index) ==
    [description |-> "Defined", type |-> "SectionRelative", visibility |-> "External",
     string_index |-> string_index, section_index |-> TextIndex,
     value |-> function_offset]

MachOAddFunction(img, function) ==
    LET function_offset == FunctionOffset(img)
        img1 == AppendText(img, function.code_content)
        strings == StringTableAdd(img1.string_table, <<"_", function.name>>)
    IN [img1 EXCEPT !.string_table = strings,
                    !.symtab = Append(@, MachOFunctionSymbol(function, function_offset,
                                                              Len(strings)))]

\* image.add_symbol(function_symbol, function.name)
MSCOFFFunctionSymbol(function, function_offset) ==
    [name |-> function.name, value |-> function_offset, section_index |-> TextIndex,
     symbol_type |-> "function", storage_class |-> "external"]

MSCOFFAddFunction(img, function) ==
    LET function_offset == FunctionOffset(img)
        img1 == AppendText(img, function.code_content)
    IN [img1 EXCEPT !.symtab = Append(@, MSCOFFFunctionSymbol(function, function_offset))]

(* ----------------------------------------- AssemblyWriter.add_function *)

\* function.format(assembly_format): the function's text in that dialect
FormatFunction(function, assembly_format) == << <<"code", function.name, assembly_format>> >>

\* a file object that puts each write in front of what the file already holds
WriteTextAtStart(content, text) == text \o content

\* output_file.write(text) on a file opened with "w": the text goes to the end
WriteText(content, text) == content \o text

(* ------------------------------------------------------------- sessions *)

Top == stack[Len(stack)]

\* a NullWriter whose __enter__ leaves the active writer in place
InstalledOrKept(w) == IF self[w].cls = "NullWriter" THEN active_writer ELSE w

\* What __enter__ installs as active_writer: the writer itself, or None for NullWriter.
Installed(w) == IF self[w].cls = "NullWriter" THEN None ELSE w

\* What open() followed by AssemblyWriter's header write leaves in the file.
OpenedContent(w) ==
    IF self[w].cls = "AssemblyWriter" THEN WriteText(<<>>, self[w].output_header) ELSE <<>>

\* `with w:` -- __enter__ returns; the file (if the class has one) is created or truncated.
Enter(w) ==
    /\ exc = "none"
    /\ Tidy
    /\ session[w] = "built"
    /\ self' = [self EXCEPT ![w].previous_writer = active_writer,
                            ![w].output_file =
                                IF self[w].cls \in FileClasses THEN w ELSE @]
    /\ active_writer' = Installed(w)
    /\ files' = [files EXCEPT ![w] = IF self[w].cls \in FileClasses THEN "open" ELSE @]
    /\ disk' = [disk EXCEPT ![w] = IF self[w].cls \in FileClasses
                                   THEN [exists |-> TRUE, content |-> OpenedContent(w)]
                                   ELSE @]
    /\ stack' = Append(stack, w)
    /\ session' = [session EXCEPT ![w] = "open"]
    /\ history' = [history EXCEPT ![w].entered_from = active_writer]
    /\ UNCHANGED <<image, exc>>

\* `with w:` -- open() raises inside __enter__, after active_writer was assigned;
\* __exit__ is not called for a failed __enter__.
EnterFail(w) ==
    /\ exc = "none"
    /\ Tidy
    /\ session[w] = "built"
    /\ self[w].cls \in FileClasses
    /\ self' = [self EXCEPT ![w].previous_writer = active_writer]
    /\ active_writer' = Installed(w)
    /\ exc' = "IOError"
    /\ session' = [session EXCEPT ![w] = "enter_failed"]
    /\ history' = [history EXCEPT ![w].entered_from = active_writer]
    /\ UNCHANGED <<image, files, disk, stack>>

RECURSIVE Calls(_)
\* The add_function calls made so far on the writers 1..n.
Calls(n) == IF n = 0 THEN 0 ELSE Len(history[n].called) + Calls(n - 1)

\* The caller may call w.add_function inside w's `with` block.
CanAdd(w, function) ==
    /\ exc = "none"
    /\ Tidy
    /\ session[w] = "open"
    /\ self[w].cls \in FileClasses
    /\ function \in FunctionsFor(self[w].cls)
    /\ Calls(NumWriters) < MaxFunctions

\* The assertion that opens every add_function.
IsABIFunction(function) == function.abi_bound

\* add_function with a function that is not an ABIFunction: AssertionError.
AddFunctionRejected(w, function) ==
    /\ CanAdd(w, function)
    /\ ~IsABIFunction(function)
    /\ exc' = "AssertionError"
    /\ history' = [history EXCEPT ![w].called = Append(@, function)]
    /\ UNCHANGED <<active_writer, self, image, files, disk, stack, session>>

\* AssemblyWriter.add_function
AssemblyAddFunction(w, function) ==
    /\ CanAdd(w, function)
    /\ self[w].cls = "AssemblyWriter"
    /\ IsABIFunction(function)
    /\ disk' = [disk EXCEPT ![w].content =
                    WriteText(@, FormatFunction(function, self[w].assembly_format) \o LineSep)]
    /\ history' = [history EXCEPT ![w].called = Append(@, function), ![w].added = Append(@, function)]
    /\ UNCHANGED <<active_writer, self, image, files, stack, exc, session>>

\* ELFWriter.add_function
ELFWriterAddFunction(w, function) ==
    /\ CanAdd(w, function)
    /\ self[w].cls = "ELFWriter"
    /\ IsABIFunction(function)
    /\ LET r == ELFAddFunction(image[w], self[w].rodata_section,
                               self[w].text_rela_section, function)
       IN /\ image' = [image EXCEPT ![w] = r.image]
          /\ self' = [self EXCEPT ![w].rodata_section = r.rodata_section,
                                  ![w].text_rela_section = r.text_rela_section]
          /\ exc' = r.raised
          /\ history' = [history EXCEPT
                           ![w].called = Append(@, function),
                           ![w].added = IF r.raised = "none" THEN Append(@, function) ELSE @]
    /\ UNCHANGED <<active_writer, files, disk, stack, session>>

\* MachOWriter.add_function
MachOWriterAddFunction(w, function) ==
    /\ CanAdd(w, function)
    /\ self[w].cls = "MachOWriter"
    /\ IsABIFunction(function)
    /\ image' = [image EXCEPT ![w] = MachOAddFunction(@, function)]
    /\ history' = [history EXCEPT ![w].called = Append(@, function), ![w].added = Append(@, function)]
    /\ UNCHANGED <<active_writer, self, files, disk, stack, exc, session>>

\* MSCOFFWriter.add_function
MSCOFFWriterAddFunction(w, function) ==
    /\ CanAdd(w, function)
    /\ self[w].cls = "MSCOFFWriter"
    /\ IsABIFunction(function)
    /\ image' = [image EXCEPT ![w] = MSCOFFAddFunction(@, function)]
    /\ history' = [history EXCEPT ![w].called = Append(@, function), ![w].added = Append(@, function)]
    /\ UNCHANGED <<active_writer, self, files, disk, stack, exc, session>>

\* The body of the innermost `with` block raises an error of its own.
Raise ==
    /\ exc = "none"
    /\ Tidy
    /\ stack # <<>>
    /\ exc' = "Error"
    /\ UNCHANGED <<active_writer, self, image, files, disk, stack, session, history>>

(* -------------------------------------------------------------- __exit__ *)

\* __exit__ that clears the slot instead of restoring the enclosing writer
RestoredWriterCleared(w) == None

\* __exit__ that restores the enclosing writer only when no exception is in flight
RestoredWriterOnSuccess(w) == IF exc = "none" THEN self[w].previous_writer ELSE active_writer

\* The writer __exit__ makes active again.
RestoredWriter(w) == self[w].previous_writer

\* image.as_bytearray: the bytes of the object file
Serialize(cls, img) == <<[format |-> cls, image |-> img]>>

\* The first three statements of every __exit__, as the attributes of w afterwards.
Restored(w) == [self[w] EXCEPT !.previous_writer = None]

\* What the normal path leaves in the file: the text already written, or the image.
ClosedContent(w) ==
    IF self[w].cls \in ObjectClasses
    THEN disk[w].content \o Serialize(self[w].cls, image[w])
    ELSE disk[w].content

\* The `with` block of w ends without an exception and __exit__ returns.
Close(w) ==
    /\ exc = "none"
    /\ Tidy
    /\ stack # <<>> /\ w = Top
    /\ active_writer' = RestoredWriter(w)
    /\ IF self[w].cls \in FileClasses
       THEN /\ disk' = [disk EXCEPT ![w].content = ClosedContent(w)]
            /\ files' = [files EXCEPT ![w] = "closed"]
            /\ self' = [self EXCEPT ![w] = [Restored(w) EXCEPT !.output_file = None]]
       ELSE /\ self' = [self EXCEPT ![w] = Restored(w)]
            /\ UNCHANGED <<disk, files>>
    /\ stack' = SubSeq(stack, 1, Len(stack) - 1)
    /\ session' = [session EXCEPT ![w] = "closed"]
    /\ history' = [history EXCEPT ![w].result = "normal"]
    /\ UNCHANGED <<image, exc>>

\* The `with` block of an object writer ends without an exception, and
\* output_file.write(image.as_bytearray) raises: close() and the reset of
\* output_file are not reached.
CloseFail(w) ==
    /\ exc = "none"
    /\ Tidy
    /\ stack # <<>> /\ w = Top
    /\ self[w].cls \in ObjectClasses
    /\ active_writer' = RestoredWriter(w)
    /\ self' = [self EXCEPT ![w] = Restored(w)]
    /\ exc' = "IOError"
    /\ stack' = SubSeq(stack, 1, Len(stack) - 1)
    /\ session' = [session EXCEPT ![w] = "closed"]
    /\ history' = [history EXCEPT ![w].result = "error", ![w].close_failed = TRUE]
    /\ UNCHANGED <<image, files, disk>>

\* The file object after `self.output_file = None` dropped the only reference to it
\* without close(): closed by the interpreter at once, or still open.
DroppedFile == {"closed", "open"}

\* The `with` block of w ends with an exception: __exit__ unlinks the file, drops
\* the file object and re-raises.
Abort(w) ==
    /\ exc # "none"
    /\ Tidy
    /\ stack # <<>> /\ w = Top
    /\ active_writer' = RestoredWriter(w)
    /\ IF self[w].cls \in FileClasses
       THEN /\ disk' = [disk EXCEPT ![w] = [exists |-> FALSE, content |-> <<>>]]
            /\ \E f \in DroppedFile : files' = [files EXCEPT ![w] = f]
            /\ self' = [self EXCEPT ![w] = [Restored(w) EXCEPT !.output_file = None]]
       ELSE /\ self' = [self EXCEPT ![w] = Restored(w)]
            /\ UNCHANGED <<disk, files>>
    /\ stack' = SubSeq(stack, 1, Len(stack) - 1)
    /\ session' = [session EXCEPT ![w] = "closed"]
    /\ history' = [history EXCEPT ![w].result = "error"]
    /\ UNCHANGED <<image, exc>>

\* The `with` block of w ends with an exception and os.unlink raises (the file is
\* still open): its error replaces the one in flight, output_file is not reset.
AbortFail(w) ==
    /\ exc # "none"
    /\ Tidy
    /\ stack # <<>> /\ w = Top
    /\ self[w].cls \in FileClasses
    /\ active_writer' = RestoredWriter(w)
    /\ self' = [self EXCEPT ![w] = Restored(w)]
    /\ exc' = "OSError"
    /\ stack' = SubSeq(stack, 1, Len(stack) - 1)
    /\ session' = [session EXCEPT ![w] = "closed"]
    /\ history' = [history EXCEPT ![w].result = "error", ![w].close_failed = TRUE]
    /\ UNCHANGED <<image, files, disk>>

\* The exception has left every `with` block and the caller handles it.
Handle ==
    /\ exc # "none"
    /\ Tidy
    /\ stack = <<>>
    /\ exc' = "none"
    /\ UNCHANGED <<active_writer, self, image, files, disk, stack, session, history>>

\* The caller is done with a writer whose session is over: it drops the object,
\* which nothing refers to any more, and takes the output file away.
Discard(w) ==
    /\ session[w] \in {"closed", "enter_failed"}
    /\ ~Referenced(w)
    /\ self' = [self EXCEPT ![w] = NoObject]
    /\ image' = [image EXCEPT ![w] = NoImage]
    /\ files' = [files EXCEPT ![w] = "none"]
    /\ disk' = [disk EXCEPT ![w] = [exists |-> FALSE, content |-> <<>>]]
    /\ session' = [session EXCEPT ![w] = "unbuilt"]
    /\ history' = [history EXCEPT ![w] = NoHistory]
    /\ UNCHANGED <<active_writer, stack, exc>>

Next ==
    \/ \E w \in Writers, call \in ConstructorCalls : Construct(w, call)
    \/ \E w \in Writers, call \in ConstructorCalls : ConstructFail(w, call)
    \/ \E w \in Writers : Enter(w)
    \/ \E w \in Writers : EnterFail(w)
    \/ \E w \in Writers, function \in Functions : AddFunctionRejected(w, function)
    \/ \E w \in Writers, function \in Functions : AssemblyAddFunction(w, function)
    \/ \E w \in Writers, function \in Functions : ELFWriterAddFunction(w, function)
    \/ \E w \in Writers, function \in Functions : MachOWriterAddFunction(w, function)
    \/ \E w \in Writers, function \in Functions : MSCOFFWriterAddFunction(w, function)
    \/ Raise
    \/ \E w \in Writers : Close(w)
    \/ \E w \in Writers : CloseFail(w)
    \/ \E w \in Writers : Abort(w)
    \/ \E w \in Writers : AbortFail(w)
    \/ Handle
    \/ \E w \in Writers : Discard(w)

Spec == Init /\ [][Next]_vars

\* The caller that opens sessions one at a time (no `with` inside a `with`) and
\* hands functions to them.
NextSequential ==
    \/ \E w \in Writers, call \in ConstructorCalls : stack = <<>> /\ Construct(w, call)
    \/ \E w \in Writers, call \in ConstructorCalls : ConstructFail(w, call)
    \/ \E w \in Writers : stack = <<>> /\ Enter(w)
    \/ \E w \in Writers : stack = <<>> /\ EnterFail(w)
    \/ \E w \in Writers, function \in Functions : AddFunctionRejected(w, function)
    \/ \E w \in Writers, function \in Functions : AssemblyAddFunction(w, function)
    \/ \E w \in Writers, function \in Functions : ELFWriterAddFunction(w, function)
    \/ \E w \in Writers, function \in Functions : MachOWriterAddFunction(w, function)
    \/ \E w \in Writers, function \in Functions : MSCOFFWriterAddFunction(w, function)
    \/ Raise
    \/ \E w \in Writers : Close(w)
    \/ \E w \in Writers : CloseFail(w)
    \/ \E w \in Writers : Abort(w)
    \/ \E w \in Writers : AbortFail(w)
    \/ Handle
    \/ \E w \in Writers : Discard(w)

SpecSequential == Init /\ [][NextSequential]_vars

\* The caller that nests sessions to any depth and hands no function to them.
NextNesting ==
    \/ \E w \in Writers, call \in ConstructorCalls : Construct(w, call)
    \/ \E w \in Writers, call \in ConstructorCalls : ConstructFail(w, call)
    \/ \E w \in Writers : Enter(w)
    \/ \E w \in Writers : EnterFail(w)
    \/ Raise
    \/ \E w \in Writers : Close(w)
    \/ \E w \in Writers : CloseFail(w)
    \/ \E w \in Writers : Abort(w)
    \/ \E w \in Writers : AbortFail(w)
    \/ Handle
    \/ \E w \in Writers : Discard(w)

SpecNesting == Init /\ [][NextNesting]_vars

(* ------------------------------------------------------------ properties *)

\* The writers that own an output file and whose session is over.
ClosedFileWriters == {w \in Writers : session[w] = "closed" /\ self[w].cls \in FileClasses}

RECURSIVE Listing(_, _)
\* The text of the functions, in order, each followed by a line separator.
Listing(functions, assembly_format) ==
    IF functions = <<>> THEN <<>>
    ELSE FormatFunction(Head(functions), assembly_format) \o LineSep
         \o Listing(Tail(functions), assembly_format)

\* The complete artifact of w's session.
Artifact(w) ==
    IF self[w].cls = "AssemblyWriter"
    THEN self[w].output_header \o Listing(history[w].added, self[w].assembly_format)
    ELSE Serialize(self[w].cls, image[w])

\* C1: after a session is closed the output path exists if and only if no error
\* propagated out of the session: after an error the path does not exist, after a
\* normal close it exists and holds the complete artifact.
C1_OutputIffNoError ==
    \A w \in ClosedFileWriters :
        /\ history[w].result = "error" => ~disk[w].exists
        /\ history[w].result = "normal" => disk[w].exists /\ disk[w].content = Artifact(w)

\* What __enter__ installs for the innermost open session, None outside all sessions.
Innermost(s) == IF s = <<>> THEN None ELSE Installed(s[Len(s)])

\* Whether the step closes the session of w.
Closes(w) == session[w] = "open" /\ session'[w] = "closed"

\* C2: closing a session makes the active writer the one that was active right
\* before the session was opened; with nesting this is what the enclosing session
\* installed, and outside all sessions it is the initial None (as long as every
\* session of the run was opened, i.e. no __enter__ failed).
C2_CloseRestoresPrevious ==
    [][\A w \in Writers :
          Closes(w) =>
              /\ active_writer' = history[w].entered_from
              /\ (\A v \in Writers : session[v] # "enter_failed")
                     => active_writer' = Innermost(stack')]_vars

\* C2 witness: an inner session was closed inside an outer one, which is active again.
C2_Witness ==
    \E w, v \in Writers :
        /\ session[w] = "closed" /\ session[v] = "open"
        /\ self[v].cls # "NullWriter"
        /\ history[w].entered_from = v
        /\ active_writer = v

\* C3: the enclosing writer is restored, and the writer's link to it cleared, on
\* every path of __exit__: normal, with an error in flight, and when the close
\* itself fails (writing the image on the normal path, deleting the file on the
\* error path).
C3_RestoredOnEveryPath ==
    [][\A w \in Writers :
          Closes(w) =>
              /\ active_writer' = history[w].entered_from
              /\ self'[w].previous_writer = None]_vars

\* C3 witness: the close of an inner session failed and the outer writer is active.
C3_Witness ==
    \E w, v \in Writers :
        /\ session[w] = "closed" /\ history[w].close_failed
        /\ session[v] = "open" /\ self[v].cls # "NullWriter"
        /\ history[w].entered_from = v
        /\ active_writer = v

\* The writers that own an image.
ObjectWriters == {w \in Writers : self[w].cls \in ObjectClasses}

\* Whether a symbol table entry is a global function symbol, in the terms of its format.
IsFunctionSymbol(cls, symbol) ==
    CASE cls = "ELFWriter" -> symbol.binding = "global_" /\ symbol.type = "function"
      [] cls = "MachOWriter" ->
           symbol.visibility = "External" /\ symbol.type = "SectionRelative"
      [] cls = "MSCOFFWriter" ->
           symbol.storage_class = "external" /\ symbol.symbol_type = "function"

FunctionSymbols(w) ==
    SelectSeq(image[w].symtab, LAMBDA symbol : IsFunctionSymbol(self[w].cls, symbol))

RECURSIVE CodeLength(_, _)
\* The code length of the first n functions.
CodeLength(functions, n) ==
    IF n = 0 THEN 0 ELSE Len(functions[n].code_content) + CodeLength(functions, n - 1)

\* The size an entry records for its symbol, Unset when it records none.
RecordedSize(symbol) ==
    IF "content_size" \in DOMAIN symbol /\ symbol.content_size # Unset
    THEN symbol.content_size
    ELSE IF "size" \in DOMAIN symbol THEN symbol.size ELSE Unset

\* One global function symbol per added function, at the offset of its code.
FunctionSymbolsPlaced(w) ==
    /\ Len(FunctionSymbols(w)) = Len(history[w].added)
    /\ \A i \in 1..Len(history[w].added) :
           FunctionSymbols(w)[i].value = CodeLength(history[w].added, i - 1)

ELFWriters == {w \in Writers : self[w].cls = "ELFWriter"}

\* Whether every add_function call made on w returned.
AllAdded(w) == Len(history[w].called) = Len(history[w].added)

\* The positions of the sections of a kind in w's image.
SectionsOf(w, kind) ==
    {i \in DOMAIN image[w].sections : image[w].sections[i].kind = kind}

\* The entries of w's relocation table.
RelocationTable(w) ==
    IF self[w].text_rela_section \in {None, Unset} THEN <<>>
    ELSE image[w].sections[self[w].text_rela_section].relocations

RECURSIVE ExpectedOffsets(_, _)
\* For the first n functions, in order: code offset of the function + offset of the
\* relocation within it.
ExpectedOffsets(functions, n) ==
    IF n = 0 THEN <<>>
    ELSE ExpectedOffsets(functions, n - 1)
         \o [k \in 1..Len(functions[n].code_relocations) |->
                CodeLength(functions, n - 1) + functions[n].code_relocations[k].offset]

\* C5: every relocation supplied by a function added to an ELF writer is recorded at
\* code_offset + offset, code_offset being the length of the text section when the
\* function's code was appended.
C5_RelocationAtCodeOffset ==
    \A w \in ELFWriters :
        AllAdded(w) =>
            [k \in 1..Len(RelocationTable(w)) |-> RelocationTable(w)[k].offset]
                = ExpectedOffsets(history[w].added, Len(history[w].added))

\* C6: whenever a session has closed, normally or with an error, the file object
\* opened at session open has been closed.
C6_HandleClosed ==
    \A w \in ClosedFileWriters : files[w] = "closed"

RECURSIVE Sum(_)
\* The sum of a sequence of numbers.
Sum(numbers) == IF numbers = <<>> THEN 0 ELSE Head(numbers) + Sum(Tail(numbers))

\* The number of bytes of constant data, of constant symbols and of relocations of
\* the first n functions.
ConstContentCount(functions, n) == Sum([i \in 1..n |-> Len(functions[i].const_content)])

ConstSymbolCount(functions, n) == Sum([i \in 1..n |-> Len(functions[i].const_symbols)])

RelocationCount(functions, n) == Sum([i \in 1..n |-> Len(functions[i].code_relocations)])

DataSymbols(w) ==
    SelectSeq(image[w].symtab, LAMBDA symbol : ~IsFunctionSymbol(self[w].cls, symbol))

\* C7: for each of the three binary writers the image has a read-only-data section
\* iff an added function supplied constant data, one global function symbol per
\* added function, one local data symbol per constant symbol, and (ELF, COFF) a
\* relocation table holding the functions' relocations.
C7_ImageContents ==
    \A w \in ObjectWriters :
        AllAdded(w) =>
            LET added == history[w].added
                n == Len(added)
            IN /\ (SectionsOf(w, "rodata") # {}) <=> ConstContentCount(added, n) > 0
               /\ Len(FunctionSymbols(w)) = n
               /\ Len(DataSymbols(w)) = ConstSymbolCount(added, n)
               /\ self[w].cls \in {"ELFWriter", "MSCOFFWriter"} =>
                      Cardinality({i \in DOMAIN image[w].sections :
                                      Len(image[w].sections[i].relocations) > 0})
                          = (IF RelocationCount(added, n) > 0 THEN 1 ELSE 0)

RECURSIVE ConstData(_, _)
\* The constant data of the first n functions handed to add_function, in order;
\* a function that fails the assertion contributes nothing.
ConstData(functions, n) ==
    IF n = 0 THEN <<>>
    ELSE ConstData(functions, n - 1)
         \o (IF functions[n].abi_bound THEN functions[n].const_content ELSE <<>>)

\* C8: an ELF writer has no read-only-data section while no function handed to it
\* supplied constant data; once one did, the image holds exactly one such section,
\* the writer's rodata_section, and it holds the constant data of all the
\* functions in call order.
C8_RodataOnce ==
    \A w \in ELFWriters :
        LET data == ConstData(history[w].called, Len(history[w].called))
        IN IF data = <<>>
           THEN SectionsOf(w, "rodata") = {} /\ self[w].rodata_section = None
           ELSE /\ SectionsOf(w, "rodata") = {self[w].rodata_section}
                /\ image[w].sections[self[w].rodata_section].content = data

\* C8 witness: two functions with constant data were handed to one ELF writer.
C8_Witness ==
    \E w \in ELFWriters :
        /\ Len(history[w].called) = 2
        /\ history[w].called[1].const_content # <<>>
        /\ history[w].called[2].const_content # <<>>
        /\ Cardinality(SectionsOf(w, "rodata")) = 1

\* The symbol table position of the first entry of the n-th function.
SymtabBase(functions, n) == ConstSymbolCount(functions, n - 1) + (n - 1)

\* The position, among the function's constant symbols, of the one a name refers to.
Defining(function, name) ==
    CHOOSE p \in DOMAIN function.const_symbols :
        /\ function.const_symbols[p].name = name
        /\ \A q \in DOMAIN function.const_symbols :
               function.const_symbols[q].name = name => q <= p

RECURSIVE ExpectedSymbols(_, _)
\* For the first n functions, in order: for each relocation the symbol table
\* position of the constant symbol its own function registered under that name.
ExpectedSymbols(functions, n) ==
    IF n = 0 THEN <<>>
    ELSE ExpectedSymbols(functions, n - 1)
         \o [k \in 1..Len(functions[n].code_relocations) |->
                SymtabBase(functions, n)
                + Defining(functions[n], functions[n].code_relocations[k].symbol)]

\* Whether one of the first n functions handed to add_function got as far as the
\* relocation step with relocations to add.
RelocationsSupplied(functions) ==
    \E i \in DOMAIN functions :
        functions[i].abi_bound /\ functions[i].code_relocations # <<>>

\* C9: an ELF writer holds at most one relocation table, created by the first
\* function that supplies relocations; after any sequence of add_function calls
\* that all returned it holds one entry per relocation of the added functions, in
\* order, each referring to the constant symbol its own function registered under
\* that name.
C9_RelocationTable ==
    \A w \in ELFWriters :
        /\ IF RelocationsSupplied(history[w].called)
           THEN SectionsOf(w, "rela") = {self[w].text_rela_section}
           ELSE SectionsOf(w, "rela") = {} /\ self[w].text_rela_section = None
        /\ AllAdded(w) =>
               /\ [k \in 1..Len(RelocationTable(w)) |-> RelocationTable(w)[k].symbol]
                      = ExpectedSymbols(history[w].added, Len(history[w].added))
               /\ \A k \in 1..Len(RelocationTable(w)) :
                      LET symbol == image[w].symtab[RelocationTable(w)[k].symbol]
                      IN symbol.binding = "local" /\ symbol.type = "data_object"

\* C9 witness: two functions that each define a constant symbol "c" and refer to
\* it were added; the table holds two entries referring to two different symbols.
C9_Witness ==
    \E w \in ELFWriters :
        /\ Len(history[w].added) = 2
        /\ Len(RelocationTable(w)) = 2
        /\ RelocationTable(w)[1].symbol # RelocationTable(w)[2].symbol
        /\ image[w].symtab[RelocationTable(w)[1].symbol].name = "c"
        /\ image[w].symtab[RelocationTable(w)[2].symbol].name = "c"

\* Whether the last function handed to w's add_function was not bound to an ABI.
LastRejected(w) ==
    /\ history[w].called # <<>>
    /\ ~history[w].called[Len(history[w].called)].abi_bound

\* C10: add_function with a function that is not ABI-bound fails before changing
\* any section, symbol or relocation, the error leaves the session, and after the
\* session is closed the output file is not on disk.
C10_RejectedLeavesNoFile ==
    \A w \in Writers :
        (self[w].cls \in FileClasses /\ LastRejected(w)) =>
            /\ session[w] = "open" => exc # "none"
            /\ self[w].cls \in ObjectClasses =>
                   /\ FunctionSymbolsPlaced(w)
                   /\ FunctionOffset(image[w])
                          = CodeLength(history[w].added, Len(history[w].added))
            /\ session[w] = "closed" => history[w].result = "error" /\ ~disk[w].exists

\* The writers of assembly text.
AssemblyWriters == {w \in Writers : self[w].cls = "AssemblyWriter"}

DialectPrefix ==
    [go |-> "//", nasm |-> ";", masm |-> ";", gas |-> "#"]

\* C12: AssemblyWriter(path, dialect) with a dialect outside go, nasm, masm, gas
\* raises at construction and the step changes neither the active writer nor any
\* file or writer; every AssemblyWriter that exists has one of the four dialects,
\* and its header, also as found in the opened file, starts with exactly that
\* dialect's comment prefix.
C12_UnknownDialectRejected ==
    /\ [](\A w \in AssemblyWriters :
             /\ self[w].assembly_format \in DOMAIN DialectPrefix
             /\ self[w].comment_prefix = DialectPrefix[self[w].assembly_format]
             /\ Head(self[w].output_header)[1] = DialectPrefix[self[w].assembly_format]
             /\ session[w] = "open" =>
                    Head(disk[w].content)[1] = DialectPrefix[self[w].assembly_format])
    /\ [][(exc = "none" /\ exc' = "ValueError") =>
             UNCHANGED <<active_writer, self, image, files, disk, stack, session>>]_vars

\* C12 witness: inside the open session of a gas writer, whose file starts with "#",
\* a constructor call has just raised ValueError and the gas writer is still active.
C12_Witness ==
    /\ exc = "ValueError"
    /\ \E w \in AssemblyWriters :
           /\ session[w] = "open" /\ active_writer = w
           /\ self[w].assembly_format = "gas"
           /\ disk[w].exists /\ Head(disk[w].content)[1] = "#"

\* The NullWriter objects.
NullWriters == {w \in Writers : self[w].cls = "NullWriter"}

\* Whether the step opens the session of w.
Opens(w) == session[w] = "built" /\ session'[w] = "open"

\* C13: opening a NullWriter makes the active writer None whatever writer was
\* active before, and remembers that writer; closing it, with or without an error
\* in flight, makes that writer active again and leaves the error in flight.
C13_NullWriterSuspends ==
    [][\A w \in NullWriters :
          /\ Opens(w) =>
                 /\ active_writer' = None
                 /\ self'[w].previous_writer = active_writer
          /\ Closes(w) =>
                 /\ active_writer' = history[w].entered_from
                 /\ exc' = exc]_vars

\* C13 witness: a NullWriter opened inside the session of a writer v (so None was
\* active in between) was closed by an error, which is still in flight inside v's
\* session, and v is active again.
C13_Witness ==
    \E w \in NullWriters, v \in Writers :
        /\ session[w] = "closed" /\ history[w].result = "error"
        /\ session[v] = "open" /\ self[v].cls # "NullWriter"
        /\ history[w].entered_from = v
        /\ active_writer = v
        /\ exc # "none"

\* C14: in an ELF writer every constant symbol of the i-th added function is in the
\* symbol table as a local data-object symbol with the given name and size, attached
\* to the read-only-data section of the image, with value = the constant-data size
\* of the functions added before it + the symbol's local offset.
C14_ConstSymbolAtRodataOffset ==
    \A w \in ELFWriters :
        AllAdded(w) =>
            \A i \in DOMAIN history[w].added :
                LET function == history[w].added[i]
                    rodata_offset == ConstContentCount(history[w].added, i - 1)
                IN \A p \in DOMAIN function.const_symbols :
                       LET symbol == function.const_symbols[p]
                           entry == image[w].symtab[SymtabBase(history[w].added, i) + p]
                       IN /\ entry.name = symbol.name
                          /\ entry.size = symbol.size
                          /\ entry.binding = "local" /\ entry.type = "data_object"
                          /\ entry.section \in SectionsOf(w, "rodata")
                          /\ entry.value = rodata_offset + symbol.offset

\* Whether sequence a is the beginning of sequence b.
IsPrefix(a, b) == Len(a) <= Len(b) /\ SubSeq(b, 1, Len(a)) = a

\* C15: while a session of an ELF, Mach-O or COFF writer is open, every step (so
\* every add_function call, also one that fails) leaves each section in place with
\* its old content and its old relocation entries as the beginning of the new ones,
\* and leaves every symbol table entry already registered as it was.
C15_AppendOnly ==
    [][\A w \in ObjectWriters :
          (session[w] = "open" /\ session'[w] = "open") =>
              /\ \A i \in DOMAIN image[w].sections :
                     /\ i \in DOMAIN image'[w].sections
                     /\ image'[w].sections[i].kind = image[w].sections[i].kind
                     /\ IsPrefix(image[w].sections[i].content,
                                 image'[w].sections[i].content)
                     /\ IsPrefix(image[w].sections[i].relocations,
                                 image'[w].sections[i].relocations)
              /\ IsPrefix(image[w].symtab, image'[w].symtab)]_vars

\* C15 witness: function g was added twice to an ELF writer; the entries of the
\* first call are where they were (constant at 0, function at 0, relocation to the
\* first constant), those of the second call follow them.
C15_Witness ==
    \E w \in ELFWriters :
        /\ Len(history[w].added) = 2
        /\ Len(image[w].symtab) = 4
        /\ image[w].symtab[1].value = 0 /\ image[w].symtab[2].value = 0
        /\ image[w].symtab[3].value > 0 /\ image[w].symtab[4].value > 0
        /\ Len(RelocationTable(w)) = 2
        /\ RelocationTable(w)[1].symbol = 1

\* Whether a relocation of the function names a constant symbol the function itself
\* does not define.
NamesForeignSymbol(function) ==
    \E k \in DOMAIN function.code_relocations :
        \A p \in DOMAIN function.const_symbols :
            function.const_symbols[p].name # function.code_relocations[k].symbol

\* C16: an add_function call on an ELF writer whose relocation names a constant
\* symbol that the same call did not define fails, whatever earlier functions of
\* the session defined, and it adds no relocation entry and no global function
\* symbol: the relocation table and the function symbols are those of the
\* functions added before it.
C16_ForeignSymbolCallAddsNothing ==
    \A w \in ELFWriters :
        \A i \in DOMAIN history[w].called :
            (history[w].called[i].abi_bound /\ NamesForeignSymbol(history[w].called[i])) =>
                /\ i = Len(history[w].called)
                /\ Len(history[w].added) = i - 1
                /\ session[w] = "open" => exc # "none"
                /\ Len(FunctionSymbols(w)) = Len(history[w].added)
                /\ Len(RelocationTable(w))
                       = RelocationCount(history[w].added, Len(history[w].added))

\* C17: an error in flight inside open sessions stays in flight until it has left
\* every one of them (no __exit__ swallows it); it leaves them innermost first, and
\* at the step at which it leaves the session of w the active writer is the one
\* from before that session and w's output file is no longer on disk.
C17_ErrorLeavesAfterCleanup ==
    [][/\ (exc # "none" /\ stack # <<>>) =>
              /\ exc' # "none"
              /\ stack' \in {stack, SubSeq(stack, 1, Len(stack) - 1)}
       /\ \A w \in Writers :
              (Closes(w) /\ exc # "none") =>
                  /\ exc' # "none"
                  /\ active_writer' = history[w].entered_from
                  /\ self[w].cls \in FileClasses => ~disk'[w].exists]_vars

\* C18: the active writer is None or a writer whose session is open (entered, file
\* opened, not yet exited); so after an __enter__ whose open() failed the active
\* writer is not the writer that failed to open.
C18_ActiveWriterIsOpen ==
    active_writer = None \/ session[active_writer] = "open"

\* C19: every local data-object symbol in the symbol table of an ELF writer is
\* attached to a read-only-data section that is in the image, never to None, also
\* when its function came with constant symbols and empty constant data.
C19_DataSymbolsAttached ==
    \A w \in ELFWriters :
        \A j \in DOMAIN image[w].symtab :
            (image[w].symtab[j].binding = "local" /\ image[w].symtab[j].type = "data_object")
                => image[w].symtab[j].section \in SectionsOf(w, "rodata")

====
